---------------------------- MODULE Spec2Model ----------------------------
(***************************************************************************)
(* A model of src/main.py, the Streamlit page "AI Drawing Data             *)
(* Structurizer".                                                          *)
(*                                                                         *)
(* Streamlit executes the whole script from top to bottom once per user    *)
(* interaction (a "rerun").  In a rerun st.button(X) is True only for the  *)
(* one button whose press caused it, every other widget returns its stored *)
(* value, and only st.session_state survives from the previous run.  The   *)
(* model follows that: every user interaction is one action that runs the  *)
(* script (operator Script) up to its end or up to the point where it      *)
(* hands call_gemini_vertex to the executor; from there the polling loop,  *)
(* the worker thread and the processing of the reply are steps of their    *)
(* own.  The user is taken to interact only with a page that has finished  *)
(* rendering.                                                              *)
(*                                                                         *)
(* Texts are sequences of tokens.  Reply tokens:                           *)
(*   "{" "}" ","   JSON punctuation                                        *)
(*   "a" "b"       a complete scalar member ("Part Number":"A1", ...)      *)
(*   "k"           a key and its colon, to be followed by an object        *)
(*   "n"           a line break (JSON whitespace)                          *)
(*   "w"           a word of prose                                         *)
(*   "f"           a code fence marker                                     *)
(***************************************************************************)
EXTENDS Integers, Sequences, FiniteSets, TLC

VARIABLES
    rows,                \* st.session_state.rows
    customer_overview,   \* widget "Customer Overview"
    component_details,   \* widget "Component Type"
    input_type,          \* radio "Select Input Method:"
    uploaded_file,       \* st.file_uploader value
    drive_file_url,      \* widget "Google Drive File URL / ID"
    drive_folder_target, \* widget "Destination Folder ID (for Spreadsheet)"
    clicked,             \* the button whose press caused the current rerun
    pc,                  \* position of the script thread
    future,              \* state of the task given to the executor
    request,             \* the arguments of the submitted call_gemini_vertex
    sent,                \* what the worker handed to model.generate_content
    elapsed,             \* int(time.time() - start_time)
    result_text,         \* future.result()
    page,                \* what the finished or running script has rendered
    sheets               \* spreadsheets created by save_to_google_sheets

vars == <<rows, customer_overview, component_details, input_type,
          uploaded_file, drive_file_url, drive_folder_target, clicked, pc,
          future, request, sent, elapsed, result_text, page, sheets>>

(***************************************************************************)
(* Bounds of the model.                                                    *)
(***************************************************************************)
MaxRows == 2
MaxElapsed == 44

(***************************************************************************)
(* Program constants.                                                      *)
(***************************************************************************)
ProgressStart == 0
ProgressRate == 2
ProgressCap == 85
ProgressProcessing == 95
ProgressDone == 100

NoBar == 0 - 1

Min(x, y) == IF x < y THEN x ELSE y

Last(s) == IF s = <<>> THEN "" ELSE s[Len(s)]

(***************************************************************************)
(* Values the user can type or pick.                                       *)
(***************************************************************************)
ItemNames == {"", "Part Number"}
Guides == {"", "Title block"}
Contexts == {"", "Major OEM"}
InputTypes == {"Local Upload", "Google Drive"}

InitialRow == [item |-> "Part Number", guide |-> "Title block"]
EmptyRow == [item |-> "", guide |-> ""]

NoFile == [present |-> FALSE, bytes |-> <<>>, type |-> "None"]
UploadTypes == {"application/pdf", "image/png"}
Uploads ==
    {NoFile} \cup
    [present : {TRUE}, bytes : {<<>>, <<1>>}, type : UploadTypes]

DriveUrls == {<<>>, <<"https:", "", "drive.google.com", "file", "d", "D1">>}
DriveFolders == {<<>>, <<"F1">>}

NoRequest ==
    [submitted |-> FALSE, file_bytes |-> [isNone |-> TRUE, data |-> <<>>],
     mime_type |-> "None", target_instructions |-> <<>>,
     customer_info |-> "", component_info |-> ""]

NoCall == [made |-> FALSE, data |-> [isNone |-> TRUE, data |-> <<>>],
           mime_type |-> "None", prompt |-> <<>>]

NoDict == [ok |-> FALSE, val |-> <<>>]

BlankPage ==
    [exception |-> FALSE, warning |-> FALSE, progress |-> NoBar,
     status |-> "", error |-> "", success |-> FALSE,
     table |-> NoDict, raw |-> [shown |-> FALSE, text |-> <<>>],
     download |-> FALSE, saveButton |-> FALSE, sheetMsg |-> ""]

(***************************************************************************)
(* Python truthiness of file_bytes: None and b"" are both false.           *)
(***************************************************************************)
Truthy(fb) == ~fb.isNone /\ fb.data # <<>>


(***************************************************************************)
(* Section 4, "Extraction Items": the loop over st.session_state.rows that *)
(* collects one "- name: guide" line per row with a non-empty name.        *)
(***************************************************************************)
ItemLine(row) == <<"- ", row.item, ": ", row.guide>>

ActiveAlways(row) == TRUE

Active(row) == row.item # ""

RECURSIVE InstructionLoop(_, _, _)
InstructionLoop(rs, i, acc) ==
    IF i > Len(rs) THEN acc
    ELSE InstructionLoop(rs, i + 1,
                         IF Active(rs[i]) THEN Append(acc, ItemLine(rs[i]))
                                          ELSE acc)

extracted_instructions(rs) == InstructionLoop(rs, 1, <<>>)

(***************************************************************************)
(* "\n".join(lines)                                                        *)
(***************************************************************************)
RECURSIVE JoinLines(_)
JoinLines(lines) ==
    IF lines = <<>> THEN <<>>
    ELSE IF Len(lines) = 1 THEN lines[1]
    ELSE lines[1] \o <<"\n">> \o JoinLines(Tail(lines))

(***************************************************************************)
(* call_gemini_vertex: the prompt f-string.                                *)
(***************************************************************************)
PromptHeader(customer_info, component_info) ==
    <<"[System Note: Region priority us-central1]", "\n",
      "Context: ", customer_info, ", ", component_info, "\n",
      "Task: Analyze the technical drawing and extract data as JSON.", "\n",
      "Instructions:", "\n">>

PromptFooter == <<"\n", "- Return ONLY valid JSON. If missing, use null.", "\n">>

BuildPrompt(target_instructions, customer_info, component_info) ==
    PromptHeader(customer_info, component_info)
        \o target_instructions \o PromptFooter

(***************************************************************************)
(* re.search(r'\{.*\}', text, re.DOTALL): with DOTALL the dot matches line *)
(* breaks too, so the greedy match runs from the first "{" to the last "}" *)
(* after it.                                                               *)
(***************************************************************************)
Positions(text, tok) == {i \in 1..Len(text) : text[i] = tok}

SetMin(S) == CHOOSE x \in S : \A y \in S : x <= y
SetMax(S) == CHOOSE x \in S : \A y \in S : y <= x

NoMatch == [found |-> FALSE, group |-> <<>>]

re_search(text) ==
    LET opens == Positions(text, "{")
        closes == Positions(text, "}")
    IN  IF opens = {} THEN NoMatch
        ELSE LET first == SetMin(opens)
                 after == {j \in closes : j > first}
             IN  IF after = {} THEN NoMatch
                 ELSE [found |-> TRUE,
                       group |-> SubSeq(text, first, SetMax(after))]

(***************************************************************************)
(* json.loads on a text that starts with "{".  A dict is kept as the       *)
(* sequence of its members in insertion order; a member is its key token   *)
(* followed, for "k", by the text of its object value without whitespace.  *)
(* A repeated key keeps its first position and takes the last value.       *)
(***************************************************************************)
RECURSIVE SkipWs(_, _)
SkipWs(s, i) ==
    IF i <= Len(s) /\ s[i] = "n" THEN SkipWs(s, i + 1) ELSE i

RECURSIVE DumpMembers(_)
DumpMembers(ms) ==
    IF ms = <<>> THEN <<>>
    ELSE IF Len(ms) = 1 THEN ms[1]
    ELSE ms[1] \o <<",">> \o DumpMembers(Tail(ms))

DumpObject(ms) == <<"{">> \o DumpMembers(ms) \o <<"}">>

PutMember(ms, m) ==
    IF \E i \in 1..Len(ms) : ms[i][1] = m[1]
    THEN [i \in 1..Len(ms) |-> IF ms[i][1] = m[1] THEN m ELSE ms[i]]
    ELSE Append(ms, m)

ParseFail == [ok |-> FALSE, val |-> <<>>, next |-> 0]

RECURSIVE ParseObject(_, _), ParseMembers(_, _, _)
ParseObject(s, i) ==
    IF i > Len(s) \/ s[i] # "{" THEN ParseFail
    ELSE LET j == SkipWs(s, i + 1)
         IN  IF j <= Len(s) /\ s[j] = "}"
             THEN [ok |-> TRUE, val |-> <<>>, next |-> j + 1]
             ELSE ParseMembers(s, j, <<>>)

ParseMembers(s, j, acc) ==
    IF j > Len(s) THEN ParseFail
    ELSE LET inner == IF s[j] = "k" THEN ParseObject(s, SkipWs(s, j + 1))
                                    ELSE ParseFail
             member == IF s[j] \in {"a", "b"}
                       THEN [ok |-> TRUE, val |-> <<s[j]>>, next |-> j + 1]
                       ELSE IF s[j] = "k" /\ inner.ok
                       THEN [ok |-> TRUE,
                             val |-> <<"k">> \o DumpObject(inner.val),
                             next |-> inner.next]
                       ELSE ParseFail
         IN  IF ~member.ok THEN ParseFail
             ELSE LET p == SkipWs(s, member.next)
                      acc2 == PutMember(acc, member.val)
                  IN  IF p > Len(s) THEN ParseFail
                      ELSE IF s[p] = "}"
                      THEN [ok |-> TRUE, val |-> acc2, next |-> p + 1]
                      ELSE IF s[p] = ","
                      THEN ParseMembers(s, SkipWs(s, p + 1), acc2)
                      ELSE ParseFail

json_loads(s) ==
    LET r == ParseObject(s, SkipWs(s, 1))
    IN  IF r.ok /\ SkipWs(s, r.next) > Len(s)
        THEN [ok |-> TRUE, val |-> r.val]
        ELSE NoDict

(***************************************************************************)
(* save_to_google_sheets: the folder id is the last path segment of a      *)
(* Drive URL, or the text itself; strings are kept split at "/".           *)
(***************************************************************************)
FolderId(folder_path_or_id) ==
    IF \E i \in 1..Len(folder_path_or_id) :
           folder_path_or_id[i] = "drive.google.com"
    THEN <<Last(folder_path_or_id)>>
    ELSE folder_path_or_id

save_to_google_sheets(folder_path_or_id, data_dict) ==
    [parents |-> FolderId(folder_path_or_id), body |-> data_dict.val]

(***************************************************************************)
(* What the remote model may answer: a JSON object bare, fenced, in prose, *)
(* or next to prose that has braces of its own; or no object at all.       *)
(***************************************************************************)
Objects ==
    { <<"{", "}">>,
      <<"{", "a", "}">>,
      <<"{", "n", "a", ",", "n", "b", "n", "}">>,
      <<"{", "k", "{", "a", "}", "}">>,
      <<"{", "a", ",", "k", "{", "b", "}", ",", "a", "}">> }

Prefixes == { <<>>, <<"f", "n">>, <<"w", "w", "n">>, <<"w", "{", "w", "}", "n">> }
Suffixes == { <<>>, <<"n", "f">>, <<"n", "w", "{", "w", "}">> }

Wrapped == { pre \o obj \o suf : pre \in Prefixes, obj \in Objects, suf \in Suffixes }

Unparseable ==
    { <<>>,
      <<"w", "n", "w">>,
      <<"{", "w", "}">>,
      <<"w", "{", "a", ",", "}">>,
      <<"{", "a">> }

Replies == Wrapped \cup Unparseable

TypeOK ==
    /\ rows \in UNION {[1..n -> [item : ItemNames, guide : Guides]] : n \in 0..MaxRows}
    /\ customer_overview \in Contexts
    /\ component_details \in Contexts
    /\ input_type \in InputTypes
    /\ uploaded_file \in Uploads
    /\ drive_file_url \in DriveUrls
    /\ drive_folder_target \in DriveFolders
    /\ clicked \in {"none", "add", "remove", "run", "download", "save"}
    /\ pc \in {"idle", "poll", "sleep", "process"}
    /\ future \in {"none", "pending", "running", "returned", "raised"}
    /\ elapsed \in 0..MaxElapsed
    /\ result_text \in Replies

Init ==
    /\ rows = <<InitialRow>>
    /\ customer_overview = ""
    /\ component_details = ""
    /\ input_type = "Local Upload"
    /\ uploaded_file = NoFile
    /\ drive_file_url = <<>>
    /\ drive_folder_target = <<>>
    /\ clicked = "none"
    /\ pc = "idle"
    /\ future = "none"
    /\ request = NoRequest
    /\ sent = NoCall
    /\ elapsed = 0
    /\ result_text = <<>>
    /\ page = BlankPage
    /\ sheets = <<>>

(***************************************************************************)
(* Lines 117-130: the row list after the "Add Item" / "Remove Last"        *)
(* buttons.  list.pop() on an empty list raises IndexError, which nothing  *)
(* catches at this level: the script run ends there.                       *)
(***************************************************************************)
AfterAdd(c, rs) == IF c = "add" THEN Append(rs, EmptyRow) ELSE rs

PopRaises(c, rs) == c = "remove" /\ rs = <<>>

AfterRemove(c, rs) ==
    IF c = "remove" /\ rs # <<>> THEN SubSeq(rs, 1, Len(rs) - 1) ELSE rs

(***************************************************************************)
(* Lines 136-150: file_bytes and mime_type of this run.                    *)
(***************************************************************************)
FileBytes(it, uf) ==
    IF it = "Local Upload" /\ uf.present
    THEN [isNone |-> FALSE, data |-> uf.bytes]
    ELSE [isNone |-> TRUE, data |-> <<>>]

MimeType(it, uf) ==
    IF it = "Local Upload" /\ uf.present THEN uf.type ELSE "None"

(***************************************************************************)
(* Line 153: the condition under which the analysis block is entered.      *)
(***************************************************************************)
RunGuard(c, it, uf) ==
    c = "run" /\ (Truthy(FileBytes(it, uf)) \/ it = "Google Drive")

(***************************************************************************)
(* One run of the script for the interaction c with the widget values      *)
(* given, from line 101 to its end or to executor.submit (line 165).       *)
(* A widget the run does not reach loses its stored value.                 *)
(***************************************************************************)
Script(c, rs, cust, comp, it, uf, url, fld) ==
    LET rs1 == AfterAdd(c, rs)
        rs2 == AfterRemove(c, rs1)
        fb == FileBytes(it, uf)
    IN  /\ clicked' = c
        /\ customer_overview' = cust
        /\ component_details' = comp
        /\ sent' = NoCall
        /\ elapsed' = 0
        /\ result_text' = <<>>
        /\ UNCHANGED sheets
        /\ IF PopRaises(c, rs1)
           THEN /\ rows' = rs1
                /\ input_type' = "Local Upload"
                /\ uploaded_file' = NoFile
                /\ drive_file_url' = <<>>
                /\ drive_folder_target' = <<>>
                /\ page' = [BlankPage EXCEPT !.exception = TRUE]
                /\ pc' = "idle"
                /\ future' = "none"
                /\ request' = NoRequest
           ELSE /\ rows' = rs2
                /\ input_type' = it
                /\ uploaded_file' = IF it = "Local Upload" THEN uf ELSE NoFile
                /\ drive_file_url' = IF it = "Google Drive" THEN url ELSE <<>>
                /\ drive_folder_target' = IF it = "Google Drive" THEN fld ELSE <<>>
                /\ IF RunGuard(c, it, uf)
                   THEN IF ~Truthy(fb) /\ it = "Local Upload"
                        THEN /\ page' = [BlankPage EXCEPT !.warning = TRUE]
                             /\ pc' = "idle"
                             /\ future' = "none"
                             /\ request' = NoRequest
                        ELSE /\ page' = [BlankPage EXCEPT
                                            !.progress = ProgressStart,
                                            !.status = "Step 1/2"]
                             /\ pc' = "poll"
                             /\ future' = "pending"
                             /\ request' =
                                  [submitted |-> TRUE,
                                   file_bytes |-> fb,
                                   mime_type |-> MimeType(it, uf),
                                   target_instructions |->
                                       JoinLines(extracted_instructions(rs2)),
                                   customer_info |-> cust,
                                   component_info |-> comp]
                   ELSE /\ page' = BlankPage
                        /\ pc' = "idle"
                        /\ future' = "none"
                        /\ request' = NoRequest

Same(c) ==
    Script(c, rows, customer_overview, component_details, input_type,
           uploaded_file, drive_file_url, drive_folder_target)

(***************************************************************************)
(* The user's interactions.  A widget can be used when the last run        *)
(* rendered it: after an uncaught exception at line 122 only what precedes *)
(* that line is on the page.                                               *)
(***************************************************************************)
Idle == pc = "idle"
FullPage == Idle /\ ~page.exception

EditCustomer ==
    /\ Idle
    /\ \E v \in Contexts \ {customer_overview} :
          Script("none", rows, v, component_details, input_type,
                 uploaded_file, drive_file_url, drive_folder_target)

EditComponent ==
    /\ Idle
    /\ \E v \in Contexts \ {component_details} :
          Script("none", rows, customer_overview, v, input_type,
                 uploaded_file, drive_file_url, drive_folder_target)

AddItem ==
    /\ Idle
    /\ Len(rows) < MaxRows
    /\ Same("add")

RemoveLast ==
    /\ Idle
    /\ Same("remove")

EditItem ==
    /\ FullPage
    /\ \E i \in 1..Len(rows) : \E v \in ItemNames \ {rows[i].item} :
          Script("none", [rows EXCEPT ![i].item = v], customer_overview,
                 component_details, input_type, uploaded_file,
                 drive_file_url, drive_folder_target)

EditGuide ==
    /\ FullPage
    /\ \E i \in 1..Len(rows) : \E v \in Guides \ {rows[i].guide} :
          Script("none", [rows EXCEPT ![i].guide = v], customer_overview,
                 component_details, input_type, uploaded_file,
                 drive_file_url, drive_folder_target)

SelectInput ==
    /\ FullPage
    /\ \E it \in InputTypes \ {input_type} :
          Script("none", rows, customer_overview, component_details, it,
                 NoFile, <<>>, <<>>)

Upload ==
    /\ FullPage
    /\ input_type = "Local Upload"
    /\ \E uf \in Uploads \ {uploaded_file} :
          Script("none", rows, customer_overview, component_details,
                 input_type, uf, drive_file_url, drive_folder_target)

EditDriveUrl ==
    /\ FullPage
    /\ input_type = "Google Drive"
    /\ \E v \in DriveUrls \ {drive_file_url} :
          Script("none", rows, customer_overview, component_details,
                 input_type, uploaded_file, v, drive_folder_target)

EditDriveFolder ==
    /\ FullPage
    /\ input_type = "Google Drive"
    /\ \E v \in DriveFolders \ {drive_folder_target} :
          Script("none", rows, customer_overview, component_details,
                 input_type, uploaded_file, drive_file_url, v)

PressRun ==
    /\ FullPage
    /\ Same("run")

PressDownload ==
    /\ Idle
    /\ page.download
    /\ Same("download")

PressSave ==
    /\ Idle
    /\ page.saveButton
    /\ Same("save")

(***************************************************************************)
(* The worker thread: call_gemini_vertex builds the prompt and the         *)
(* document part and calls model.generate_content, which returns a reply,  *)
(* raises, or does neither: the call carries no timeout.                   *)
(***************************************************************************)
WorkerCalls ==
    /\ future = "pending"
    /\ future' = "running"
    /\ sent' = [made |-> TRUE,
                data |-> request.file_bytes,
                mime_type |-> request.mime_type,
                prompt |-> BuildPrompt(request.target_instructions,
                                       request.customer_info,
                                       request.component_info)]
    /\ UNCHANGED <<rows, customer_overview, component_details, input_type,
                   uploaded_file, drive_file_url, drive_folder_target,
                   clicked, pc, request, elapsed, result_text, page, sheets>>

WorkerReturns ==
    /\ future = "running"
    /\ future' = "returned"
    /\ UNCHANGED <<rows, customer_overview, component_details, input_type,
                   uploaded_file, drive_file_url, drive_folder_target,
                   clicked, pc, request, sent, elapsed, result_text, page,
                   sheets>>

WorkerRaises ==
    /\ future \in {"pending", "running"}
    /\ future' = "raised"
    /\ UNCHANGED <<rows, customer_overview, component_details, input_type,
                   uploaded_file, drive_file_url, drive_folder_target,
                   clicked, pc, request, sent, elapsed, result_text, page,
                   sheets>>

(***************************************************************************)
(* Lines 169-171: the polling loop of the script thread.                   *)
(***************************************************************************)
FutureDone == future \in {"returned", "raised"}

Progress(seconds) == Min(seconds * ProgressRate, ProgressCap)

PollCheck ==
    /\ pc = "poll"
    /\ ~FutureDone
    /\ pc' = "sleep"
    /\ UNCHANGED <<rows, customer_overview, component_details, input_type,
                   uploaded_file, drive_file_url, drive_folder_target,
                   clicked, future, request, sent, elapsed, result_text,
                   page, sheets>>

PollSleep ==
    /\ pc = "sleep"
    /\ elapsed' = Min(elapsed + 1, MaxElapsed)
    /\ page' = [page EXCEPT !.progress = Progress(elapsed')]
    /\ pc' = "poll"
    /\ UNCHANGED <<rows, customer_overview, component_details, input_type,
                   uploaded_file, drive_file_url, drive_folder_target,
                   clicked, future, request, sent, result_text, sheets>>

(***************************************************************************)
(* Line 222: except Exception as e: st.error(...)                          *)
(***************************************************************************)
ExceptHandlerFinally(p, e) == [p EXCEPT !.error = e, !.progress = ProgressDone]

ExceptHandler(p, e) == [p EXCEPT !.error = e]

(***************************************************************************)
(* Lines 173-176: future.result() returns the reply or re-raises what the  *)
(* worker raised.                                                          *)
(***************************************************************************)
FutureResult ==
    /\ pc = "poll"
    /\ FutureDone
    /\ future' = "none"
    /\ elapsed' = 0
    /\ IF future = "raised"
       THEN /\ page' = ExceptHandler(page, "UpstreamError")
            /\ pc' = "idle"
            /\ UNCHANGED result_text
       ELSE /\ \E reply \in Replies : result_text' = reply
            /\ page' = [page EXCEPT !.status = "Step 2/2",
                                    !.progress = ProgressProcessing]
            /\ pc' = "process"
    /\ UNCHANGED <<rows, customer_overview, component_details, input_type,
                   uploaded_file, drive_file_url, drive_folder_target,
                   clicked, request, sent, sheets>>

(***************************************************************************)
(* Lines 178-222: locate the JSON object, deserialize it, show the table   *)
(* and the export options.  openpyxl refuses a cell that holds a dict, so  *)
(* df.to_excel raises for a record with an object-valued member.           *)
(***************************************************************************)
ExcelRaises(data_dict) ==
    \E i \in 1..Len(data_dict.val) : Len(data_dict.val[i]) > 1

TargetId ==
    IF drive_folder_target = <<>> /\ input_type = "Google Drive"
    THEN <<Last(drive_file_url)>>
    ELSE drive_folder_target

SaveButton == clicked = "save"

ProcessOutput ==
    /\ pc = "process"
    /\ pc' = "idle"
    /\ LET json_match == re_search(result_text)
           data_dict == json_loads(json_match.group)
           shown == [page EXCEPT !.success = TRUE, !.table = data_dict]
       IN  IF json_match.found
           THEN IF ~data_dict.ok
                THEN /\ page' = ExceptHandler(page, "JSONDecodeError")
                     /\ UNCHANGED sheets
                ELSE IF ExcelRaises(data_dict)
                THEN /\ page' = ExceptHandler(shown, "ValueError")
                     /\ UNCHANGED sheets
                ELSE IF SaveButton
                THEN \E created \in BOOLEAN :
                        /\ sheets' =
                             IF created
                             THEN Append(sheets,
                                         save_to_google_sheets(TargetId, data_dict))
                             ELSE sheets
                        /\ page' = [shown EXCEPT
                                      !.download = TRUE,
                                      !.saveButton = TRUE,
                                      !.sheetMsg = IF created THEN "created"
                                                              ELSE "error",
                                      !.progress = ProgressDone]
                ELSE /\ page' = [shown EXCEPT !.download = TRUE,
                                              !.saveButton = TRUE,
                                              !.progress = ProgressDone]
                     /\ UNCHANGED sheets
           ELSE /\ page' = [page EXCEPT
                              !.raw = [shown |-> TRUE, text |-> result_text],
                              !.progress = ProgressDone]
                /\ UNCHANGED sheets
    /\ UNCHANGED <<rows, customer_overview, component_details, input_type,
                   uploaded_file, drive_file_url, drive_folder_target,
                   clicked, future, request, sent, elapsed, result_text>>

Next ==
    \/ EditCustomer
    \/ EditComponent
    \/ AddItem
    \/ RemoveLast
    \/ EditItem
    \/ EditGuide
    \/ SelectInput
    \/ Upload
    \/ EditDriveUrl
    \/ EditDriveFolder
    \/ PressRun
    \/ PressDownload
    \/ PressSave
    \/ WorkerCalls
    \/ WorkerReturns
    \/ WorkerRaises
    \/ PollCheck
    \/ PollSleep
    \/ FutureResult
    \/ ProcessOutput

Spec == Init /\ [][Next]_vars

(***************************************************************************)
(* One analysis run and the choice of its document, with the rest of the   *)
(* form left as the page first shows it.  The script thread and the worker *)
(* thread are scheduled by the operating system and each keeps running     *)
(* while it has a step to take.  The remote model is under no obligation   *)
(* to answer: WorkerReturns and WorkerRaises get no fairness, since        *)
(* nothing in the code bounds the call.                                    *)
(*                                                                         *)
(* ProcessOutput is enabled exactly when pc = "process" and is the only    *)
(* step that leaves it, so its weak fairness is []<>(pc # "process"); it   *)
(* is stated in that form because TLC evaluates ENABLED without caching    *)
(* the intermediate values of the recursive parser.                        *)
(*                                                                         *)
(* elapsed stops at MaxElapsed; beyond ProgressCap / ProgressRate seconds  *)
(* the page no longer changes with it.                                     *)
(***************************************************************************)
PollingStep == PollCheck \/ PollSleep \/ FutureResult

RunNext ==
    \/ SelectInput
    \/ Upload
    \/ PressRun
    \/ WorkerCalls
    \/ WorkerReturns
    \/ WorkerRaises
    \/ PollingStep
    \/ ProcessOutput

FairSpec ==
    /\ Init
    /\ [][RunNext]_vars
    /\ WF_vars(PollingStep)
    /\ WF_vars(WorkerCalls)
    /\ []<>(pc # "process")

(***************************************************************************)
(* Properties.                                                             *)
(***************************************************************************)
SupportedMimeTypes ==
    {"application/pdf", "image/png", "image/jpeg", "image/tiff"}

\* The script has taken a reply from the future and finished processing it.
Processed == pc = "idle" /\ page.status = "Step 2/2"

\* No part of the text deserializes to a JSON object.
NoJsonObject(text) ==
    \A i \in 1..Len(text) : \A j \in i..Len(text) :
        ~json_loads(SubSeq(text, i, j)).ok

\* C1: call_gemini_vertex is submitted to the executor only with document
\* bytes that are not empty and a mime type of the supported set, whatever
\* the input method.
C1_NoCallWithoutDocument ==
    request.submitted =>
        /\ Truthy(request.file_bytes)
        /\ request.mime_type \in SupportedMimeTypes

\* C2: a reply made of a JSON object O in a code fence, in prose, or next
\* to prose with braces of its own is parsed to exactly O.
C2_ParserRoundTrips ==
    Processed =>
        \A pre \in Prefixes : \A obj \in Objects : \A suf \in Suffixes :
            result_text = pre \o obj \o suf => page.table = json_loads(obj)

\* C3: a run whose reply is empty or holds no JSON object ends with an
\* error shown to the user and never as a normal completion.
C3_NoJsonEndsInError ==
    (Processed /\ NoJsonObject(result_text)) =>
        /\ page.error # ""
        /\ page.progress # ProgressDone

\* C4: when a non-empty reply yields no record, the raw reply text is shown
\* to the user, whether no object was located or the located span failed to
\* deserialize.
C4_RawTextPreserved ==
    (Processed /\ result_text # <<>> /\ ~page.table.ok) =>
        /\ page.raw.shown
        /\ page.raw.text = result_text

\* The lines of a text, and those of them that are item lines.
RECURSIVE SplitLines(_, _)
SplitLines(text, line) ==
    IF text = <<>> THEN <<line>>
    ELSE IF Head(text) = "\n" THEN <<line>> \o SplitLines(Tail(text), <<>>)
    ELSE SplitLines(Tail(text), Append(line, Head(text)))

IsItemLine(line) == line # <<>> /\ line[1] = "- "

ItemLinesOf(text) == SelectSeq(SplitLines(text, <<>>), IsItemLine)

ActiveRows == {i \in 1..Len(rows) : rows[i].item # ""}

\* C5: the instruction text sent to the model holds exactly one item line
\* per row with a non-empty name, made of that row's name and guide, in the
\* order of the rows; rows with an empty name add no line, and with no
\* active row the text is still the complete frame around no item line.
C5_OneLinePerActiveRow ==
    sent.made =>
        LET lines == ItemLinesOf(sent.prompt)
            all == SplitLines(sent.prompt, <<>>)
        IN  /\ Len(lines) = Cardinality(ActiveRows)
            /\ \E f \in [1..Len(lines) -> 1..Len(rows)] :
                  /\ \A k \in 1..Len(lines) : f[k] \in ActiveRows
                  /\ \A k, l \in 1..Len(lines) : k < l => f[k] < f[l]
                  /\ \A k \in 1..Len(lines) :
                        lines[k] = <<"- ", rows[f[k]].item, ": ", rows[f[k]].guide>>
            /\ Cardinality({k \in 1..Len(all) : all[k] = <<"Instructions:">>}) = 1
            /\ Cardinality({k \in 1..Len(all) :
                   all[k] = <<"- Return ONLY valid JSON. If missing, use null.">>}) = 1

C5_Witness ==
    /\ sent.made
    /\ Len(rows) = 2
    /\ rows[1].item = ""
    /\ rows[1].guide # ""
    /\ rows[2].item # ""

\* C6: once an error of the remote call or of deserializing the reply is
\* shown, the run is over and shows no result table, no Excel download, no
\* Drive save button, and a progress bar below 100.
C6_ErrorEndsRun ==
    page.error \in {"UpstreamError", "JSONDecodeError"} =>
        /\ pc = "idle"
        /\ ~page.table.ok
        /\ ~page.success
        /\ ~page.download
        /\ ~page.saveButton
        /\ page.progress # ProgressDone

C6_Witness ==
    /\ page.error = "JSONDecodeError"
    /\ page.progress = ProgressProcessing
    /\ re_search(result_text).found

\* The run has ended and shows a result table, the raw output or an error.
Outcome ==
    /\ pc = "idle"
    /\ page.table.ok \/ page.raw.shown \/ page.error # ""

\* C8: every submitted call leads to a displayed outcome: a result table,
\* the raw output, or an error.
C8_RunEnds == request.submitted ~> Outcome

\* C9: the rerun caused by pressing "Save to Google Drive" calls
\* save_to_google_sheets and shows its result.
C9_SaveCallsWriter ==
    (pc = "idle" /\ clicked = "save") => page.sheetMsg # ""

\* C10: a press of "Add Item" or "Remove Last" completes without an
\* uncaught exception, also when the row list is already empty.
C10_RowButtonsNeverFail ==
    (pc = "idle" /\ clicked \in {"add", "remove"}) => ~page.exception

=============================================================================
